---- MODULE Spec2Model ----
(***************************************************************************)
(* Model of the configuration synthesis engine of proxygen                 *)
(* (app/services/clash_config_service.py): the group synthesizer with its  *)
(* pruning fixed point, the rule synthesizer with rule-set expansion and   *)
(* the config assembler with its shallow override.                         *)
(***************************************************************************)
EXTENDS Integers, Sequences, FiniteSets, TLC

VARIABLES
    pc,                   \* position of the call being modelled
    \* generate_config and _process_groups
    ordered_proxy_names,  \* names of the proxies, in order
    raw_groups,           \* the "proxy-groups" template list
    gi,                   \* index of the next raw_group
    active_groups,        \* the insertion-ordered dict, as a sequence of
                          \* groups with pairwise distinct names
    used_proxies,         \* names some group matched or listed
    pre_prune,            \* history: active_groups as handed to _prune_groups
    passes,               \* history: number of passes of the pruning loop
    \* _process_rules
    rule_providers_data,  \* rules_data["rule-providers"]
    files,                \* the provider files of the rules directory
    raw_rules,            \* rules_data["rules"]
    valid_targets,
    validated_providers,
    ri,                   \* index of the next raw rule
    valid_rules,
    emitted,              \* history: what each raw rule added to valid_rules
    \* _expand_rule_set
    provider,
    target,
    lines,
    li,                   \* index of the next line
    expanded_rules,
    \* generate_config, from ClashConfig(...) on
    override_data,        \* given is false for None, items is the dict
    config,               \* the ClashConfig object
    final_config,         \* the insertion-ordered dict, as a sequence of
                          \* items with pairwise distinct keys
    \* the host and the profile repository
    tz,                   \* seconds the host's local time is ahead of UTC
    profiles,             \* the saved profiles: name -> proxies
    \* fetch_and_update_profile
    external_proxies,     \* external_config["proxies"]
    user_info_header,
    dummy_proxy,
    proxies,
    \* generate_multiple_profiles_with_config
    requested,            \* the parameter name, a list of profile names
    pidx,                 \* index of the next profile name
    qidx,                 \* index of the next proxy of the loaded profile
    all_proxies,
    subscription_info     \* a dict, as a sequence of items

groupVars == <<ordered_proxy_names, raw_groups, gi, active_groups, used_proxies,
               pre_prune, passes>>
ruleVars == <<rule_providers_data, files, raw_rules, valid_targets,
              validated_providers, ri, valid_rules, emitted>>
expandVars == <<provider, target, lines, li, expanded_rules>>
configVars == <<override_data, config, final_config>>
fetchVars == <<external_proxies, user_info_header, dummy_proxy, proxies>>
generateVars == <<requested, pidx, qidx, all_proxies, subscription_info>>
profileVars == <<tz, profiles, fetchVars, generateVars>>

vars == <<pc, groupVars, ruleVars, expandVars, configVars, profileVars>>

(***************************************************************************)
(* Bounds and universes                                                    *)
(***************************************************************************)
\* Total size of one input: templates + listed entries + filters + proxies.
MaxInput == 4

ProxyUniverse == {"P1", "P2"}
GroupNames == {"PROXY", "A", "B"}
\* "X" is never a proxy and never a group.
Entries == {"P1", "X", "DIRECT"} \cup GroupNames
\* "" : no filter (None or the empty string, both falsy); "1" : a pattern
\* that finds the names holding a 1; "[" : a pattern re.compile rejects.
Filters == {"", "1", "["}

built_ins == {"DIRECT", "REJECT", "NO-HYDRA"}

(***************************************************************************)
(* Helpers                                                                 *)
(***************************************************************************)
Range(s) == {s[i] : i \in DOMAIN s}

\* [x for x in s if x in S]
Keep(s, S) == SelectSeq(s, LAMBDA x : x \in S)

\* Dedupe gone wrong: the last occurrence of each element is the one kept
RECURSIVE DedupeKeepLast(_)
DedupeKeepLast(s) ==
    IF s = <<>> THEN <<>>
    ELSE LET d == DedupeKeepLast(Tail(s))
         IN  IF s[1] \in Range(d) THEN d ELSE <<s[1]>> \o d

\* list(dict.fromkeys(s)): the first occurrence of each element, in order
RECURSIVE Dedupe(_)
Dedupe(s) ==
    IF s = <<>> THEN <<>>
    ELSE LET d == Dedupe(SubSeq(s, 1, Len(s) - 1))
         IN  IF s[Len(s)] \in Range(d) THEN d ELSE Append(d, s[Len(s)])

\* re.compile(filter_regex, re.IGNORECASE) succeeds
Compiles(f) == f # "["

\* pattern.search(name) finds a match
Search(f, name) == f = "1" /\ name \in {"P1"}

\* ProxyGroup(**raw_group) passes validation
Validates(raw_group) == raw_group.valid

\* name in active_groups
HasKey(d, name) == \E i \in DOMAIN d : d[i].name = name

Keys(d) == {d[i].name : i \in DOMAIN d}

\* active_groups[name]
Get(d, name) == d[CHOOSE i \in DOMAIN d : d[i].name = name]

\* active_groups[name] = group: a new key goes last, an old key keeps its place
DictSet(d, group) ==
    IF HasKey(d, group.name)
    THEN [i \in DOMAIN d |-> IF d[i].name = group.name THEN group ELSE d[i]]
    ELSE Append(d, group)

(***************************************************************************)
(* _process_groups, one raw_group of the for loop                          *)
(***************************************************************************)
\* matched = [name for name in ordered_proxy_names if pattern.search(name)]
Matched(raw_group, names) ==
    IF raw_group.filter # "" /\ Compiles(raw_group.filter)
    THEN SelectSeq(names, LAMBDA n : Search(raw_group.filter, n))
    ELSE <<>>

\* group["proxies"] after the extension by the filter's matches
Extended(raw_group, names) == raw_group.proxies \o Matched(raw_group, names)

\* the group stored in active_groups
ExpandedGroup(raw_group, names) ==
    [name      |-> raw_group.name,
     proxies   |-> Dedupe(Extended(raw_group, names)),
     removable |-> raw_group.removable]

\* used_proxies after this raw_group
UsedAfter(used, raw_group, names) ==
    used \cup Range(Matched(raw_group, names))
         \cup (Range(Extended(raw_group, names)) \cap Range(names))

InvalidGroup ==
    /\ pc = "expand"
    /\ gi <= Len(raw_groups)
    /\ ~Validates(raw_groups[gi])
    /\ gi' = gi + 1
    /\ UNCHANGED <<pc, ordered_proxy_names, raw_groups, active_groups,
                   used_proxies, pre_prune, passes, ruleVars, expandVars, configVars,
                   profileVars>>

ExpandGroup ==
    /\ pc = "expand"
    /\ gi <= Len(raw_groups)
    /\ Validates(raw_groups[gi])
    /\ active_groups' =
           DictSet(active_groups, ExpandedGroup(raw_groups[gi], ordered_proxy_names))
    /\ used_proxies' = UsedAfter(used_proxies, raw_groups[gi], ordered_proxy_names)
    /\ gi' = gi + 1
    /\ UNCHANGED <<pc, ordered_proxy_names, raw_groups, pre_prune, passes,
                   ruleVars, expandVars, configVars, profileVars>>

(***************************************************************************)
(* _process_groups, unclassified proxies                                   *)
(***************************************************************************)
Unclassified(names, used) == SelectSeq(names, LAMBDA p : p \notin used)

\* WithUnclassified gone wrong: the unclassified names are put in front
WithUnclassifiedInFront(d, unclassified) ==
    IF unclassified # <<>> /\ HasKey(d, "PROXY")
    THEN LET g == Get(d, "PROXY")
         IN  DictSet(d, [g EXCEPT !.proxies = Dedupe(unclassified \o g.proxies)])
    ELSE d

WithUnclassified(d, unclassified) ==
    IF unclassified # <<>> /\ HasKey(d, "PROXY")
    THEN LET g == Get(d, "PROXY")
         IN  DictSet(d, [g EXCEPT !.proxies = Dedupe(g.proxies \o unclassified)])
    ELSE d

HandleUnclassified ==
    /\ pc = "expand"
    /\ gi > Len(raw_groups)
    /\ active_groups' =
           WithUnclassified(active_groups,
                            Unclassified(ordered_proxy_names, used_proxies))
    /\ pre_prune' = active_groups'
    /\ pc' = "prune"
    /\ UNCHANGED <<ordered_proxy_names, raw_groups, gi, used_proxies, passes,
                   ruleVars, expandVars, configVars, profileVars>>

(***************************************************************************)
(* _prune_groups                                                           *)
(***************************************************************************)
BaseValidTargets(names) == Range(names) \cup built_ins

\* ValidTargets gone wrong: the names are those of the groups the call began
\* with
ValidTargetsStale(d, base) == base \cup Keys(pre_prune)

\* valid_targets of one pass
ValidTargets(d, base) == base \cup Keys(d)

\* ShouldRemove gone wrong: a removable group is filtered like any other
ShouldRemoveNever(group, vt) == FALSE

\* should_remove_group: a removable group with an entry outside valid_targets
ShouldRemove(group, vt) ==
    group.removable /\ \E i \in DOMAIN group.proxies :
                           group.proxies[i] \notin vt

\* ValidProxies gone wrong: nothing is filtered out
ValidProxiesUnfiltered(group, vt) == group.proxies

\* valid_proxies
ValidProxies(group, vt) == Keep(group.proxies, vt)

\* ToRemove gone wrong: an emptied group is kept
ToRemoveDanglingOnly(group, vt) == ShouldRemove(group, vt)

\* the group is put on groups_to_remove in this pass
ToRemove(group, vt) ==
    \/ ShouldRemove(group, vt)
    \/ ValidProxies(group, vt) = <<>>

\* active_groups after one pass of the while loop
PrunePass(d, base) ==
    LET now  == ValidTargets(d, base)
        kept == SelectSeq(d, LAMBDA g : ~ToRemove(g, now))
    IN  [i \in DOMAIN kept |->
            [kept[i] EXCEPT !.proxies = ValidProxies(kept[i], now)]]

\* RemovedCount gone wrong: the loop stops after its first pass
RemovedCountSinglePass(d, base) == 0

\* removed_count of one pass
RemovedCount(d, base) ==
    Cardinality({i \in DOMAIN d : ToRemove(d[i], ValidTargets(d, base))})

PruneAgain ==
    /\ pc = "prune"
    /\ RemovedCount(active_groups, BaseValidTargets(ordered_proxy_names)) # 0
    /\ active_groups' = PrunePass(active_groups, BaseValidTargets(ordered_proxy_names))
    /\ passes' = passes + 1
    /\ UNCHANGED <<pc, ordered_proxy_names, raw_groups, gi, used_proxies, pre_prune,
                   ruleVars, expandVars, configVars, profileVars>>

PruneLast ==
    /\ pc = "prune"
    /\ RemovedCount(active_groups, BaseValidTargets(ordered_proxy_names)) = 0
    /\ active_groups' = PrunePass(active_groups, BaseValidTargets(ordered_proxy_names))
    /\ passes' = passes + 1
    /\ pc' = "done"
    /\ UNCHANGED <<ordered_proxy_names, raw_groups, gi, used_proxies, pre_prune,
                   ruleVars, expandVars, configVars, profileVars>>

(***************************************************************************)
(* Inputs                                                                  *)
(***************************************************************************)
SeqsOfLen(S, n) == [1..n -> S]

SeqsUpTo(S, n) == UNION {SeqsOfLen(S, k) : k \in 0..n}

RECURSIVE Sum(_, _)
Sum(f, n) == IF n = 0 THEN 0 ELSE f[n] + Sum(f, n - 1)

\* what a template holds beside its proxies list; the one with valid = FALSE
\* stands for the templates the schema rejects (no type)
Heads ==
    [name : GroupNames, filter : Filters, removable : BOOLEAN, valid : {TRUE}]
    \cup {[name |-> "PROXY", filter |-> "", removable |-> FALSE, valid |-> FALSE]}

NumFilters(heads) == Cardinality({i \in DOMAIN heads : heads[i].filter # ""})

\* the template list made of the heads, the i-th with lens[i] entries of flat
Templates(heads, lens, flat) ==
    [i \in DOMAIN heads |->
        [name      |-> heads[i].name,
         proxies   |-> SubSeq(flat, Sum(lens, i - 1) + 1, Sum(lens, i)),
         filter    |-> heads[i].filter,
         removable |-> heads[i].removable,
         valid     |-> heads[i].valid]]

\* the size of an input: one for each template, each listed entry, each
\* filter and each proxy
InputSize(groups, names) ==
    Len(groups) + Sum([i \in DOMAIN groups |-> Len(groups[i].proxies)], Len(groups))
    + NumFilters(groups) + Len(names)

\* the variables of a call that is not under way
IdleGroups ==
    /\ gi = 1
    /\ active_groups = <<>>
    /\ used_proxies = {}
    /\ pre_prune = <<>>
    /\ passes = 0

IdleRules ==
    /\ rule_providers_data = <<>>
    /\ files = <<>>
    /\ raw_rules = <<>>
    /\ valid_targets = {}
    /\ validated_providers = <<>>
    /\ ri = 1
    /\ valid_rules = <<>>
    /\ emitted = <<>>

IdleExpand ==
    /\ provider = [path |-> ""]
    /\ target = <<>>
    /\ lines = <<>>
    /\ li = 1
    /\ expanded_rules = <<>>

\* None stands for a value that is not there
None == "None"

\* override_data is None
NoOverride == [given |-> FALSE, items |-> <<>>]

IdleConfig ==
    /\ override_data = NoOverride
    /\ config = None
    /\ final_config = <<>>

\* no header and no node; the parts of a header are what split(';') gives,
\* [eq, key, ok, value]: eq says that the part has a '=', ok that int()
\* takes what follows it, value is that int as a byte count
NoHeader == [given |-> FALSE, parts |-> <<>>]

NoNode == [given |-> FALSE, name |-> <<>>]

IdleFetch ==
    /\ external_proxies = <<>>
    /\ user_info_header = NoHeader
    /\ dummy_proxy = NoNode
    /\ proxies = <<>>

IdleGenerate ==
    /\ requested = <<>>
    /\ pidx = 1
    /\ qidx = 1
    /\ all_proxies = <<>>
    /\ subscription_info = <<>>

IdleProfile ==
    /\ tz = 0
    /\ profiles = <<>>
    /\ IdleFetch
    /\ IdleGenerate

Init ==
    /\ pc = "expand"
    /\ \E k \in 0..MaxInput : \E heads \in SeqsOfLen(Heads, k) :
         /\ k + NumFilters(heads) <= MaxInput
         /\ \E lens \in SeqsOfLen(0..(MaxInput - k - NumFilters(heads)), k) :
              /\ k + NumFilters(heads) + Sum(lens, k) <= MaxInput
              /\ \A i \in 1..k : ~heads[i].valid => lens[i] = 0
              /\ \E flat \in SeqsOfLen(Entries, Sum(lens, k)) :
                   raw_groups = Templates(heads, lens, flat)
    /\ ordered_proxy_names
           \in SeqsUpTo(ProxyUniverse, MaxInput - InputSize(raw_groups, <<>>))
    /\ IdleGroups
    /\ IdleRules
    /\ IdleExpand
    /\ IdleConfig
    /\ IdleProfile

Next ==
    \/ InvalidGroup
    \/ ExpandGroup
    \/ HandleUnclassified
    \/ PruneAgain
    \/ PruneLast

Spec == Init /\ [][Next]_vars

(***************************************************************************)
(* _prune_groups called on any map                                         *)
(***************************************************************************)
\* Number of groups and entries of a map handed to _prune_groups.
MaxPruneSize == 4

\* the map of the groups names[i], the i-th with lens[i] entries of flat
PruneMap(names, removable, lens, flat) ==
    [i \in DOMAIN names |->
        [name      |-> names[i],
         proxies   |-> SubSeq(flat, Sum(lens, i - 1) + 1, Sum(lens, i)),
         removable |-> removable[i]]]

InitPrune ==
    /\ pc = "prune"
    /\ ordered_proxy_names \in {<<>>, <<"P1">>}
    /\ raw_groups = <<>>
    /\ gi = 1
    /\ used_proxies = {}
    /\ passes = 0
    /\ \E k \in 0..MaxPruneSize : \E names \in SeqsOfLen(GroupNames, k) :
          /\ \A i, j \in 1..k : names[i] = names[j] => i = j
          /\ \E removable \in SeqsOfLen(BOOLEAN, k) :
             \E lens \in SeqsOfLen(0..(MaxPruneSize - k), k) :
                /\ k + Sum(lens, k) <= MaxPruneSize
                /\ \E flat \in SeqsOfLen(Entries, Sum(lens, k)) :
                      /\ active_groups = PruneMap(names, removable, lens, flat)
                      /\ pre_prune = PruneMap(names, removable, lens, flat)
    /\ IdleRules
    /\ IdleExpand
    /\ IdleConfig
    /\ IdleProfile

NextPrune ==
    \/ PruneAgain
    \/ PruneLast

\* the call is synchronous: a pass that can be taken is taken
SpecPrune == InitPrune /\ [][NextPrune]_vars /\ WF_vars(NextPrune)

(***************************************************************************)
(* Text.  A string is a sequence of lexemes: words, the comma ",", the     *)
(* blank " " and the comment sign "#".                                     *)
(***************************************************************************)
\* s.split(','): the pieces between the commas, one more than the commas
RECURSIVE Split(_)
Split(s) ==
    IF \A i \in DOMAIN s : s[i] # "," THEN <<s>>
    ELSE LET c == CHOOSE i \in DOMAIN s :
                     s[i] = "," /\ \A j \in 1..(i - 1) : s[j] # ","
         IN  <<SubSeq(s, 1, c - 1)>> \o Split(SubSeq(s, c + 1, Len(s)))

\* s.strip()
RECURSIVE Strip(_)
Strip(s) ==
    IF s = <<>> THEN s
    ELSE IF s[1] = " " THEN Strip(Tail(s))
    ELSE IF s[Len(s)] = " " THEN Strip(SubSeq(s, 1, Len(s) - 1))
    ELSE s

\* [p.strip() for p in s.split(',')]
Parts(s) == LET f == Split(s) IN [i \in DOMAIN f |-> Strip(f[i])]

\* ','.join(fields)
RECURSIVE Join(_)
Join(fields) ==
    IF fields = <<>> THEN <<>>
    ELSE IF Len(fields) = 1 THEN fields[1]
    ELSE fields[1] \o <<",">> \o Join(Tail(fields))

LowerWord(w) ==
    CASE w = "NO-RESOLVE" -> "no-resolve"
      [] w = "No-Resolve" -> "no-resolve"
      [] w = "DOMAIN"     -> "domain"
      [] OTHER            -> w

\* s.lower()
Lower(s) == [i \in DOMAIN s |-> LowerWord(s[i])]

\* the text of a name
Str(name) == <<name>>

(***************************************************************************)
(* config_repo.load_provider_file                                          *)
(***************************************************************************)
\* relative_path.strip() without a leading "./"
CleanPath(path) == IF path = "./f" THEN "f" ELSE path

\* the lines of the file, stripped, without the blank ones and the comments
LoadProviderFile(fs, path) ==
    IF CleanPath(path) \in DOMAIN fs
    THEN LET raw  == fs[CleanPath(path)]
             keep == SelectSeq(raw, LAMBDA l : Strip(l) # <<>> /\ Strip(l)[1] # "#")
         IN  [i \in DOMAIN keep |-> Strip(keep[i])]
    ELSE <<>>

(***************************************************************************)
(* _expand_rule_set                                                        *)
(***************************************************************************)
\* ExpandLine gone wrong: no-resolve stays where it was, before the target
ExpandLineSuffixInPlace(line, tgt) == Join(Parts(line)) \o <<",">> \o tgt

\* expanded_rule of one line
ExpandLine(line, tgt) ==
    LET line_parts == Parts(line)
        no_resolve == Lower(line_parts[Len(line_parts)]) = <<"no-resolve">>
        kept       == IF no_resolve
                      THEN SubSeq(line_parts, 1, Len(line_parts) - 1)
                      ELSE line_parts
        suffix     == IF no_resolve THEN <<",", "no-resolve">> ELSE <<>>
    IN  Join(kept) \o <<",">> \o tgt \o suffix

\* the whole call
ExpandRuleSet(prov, tgt, fs) ==
    IF prov.path = "" THEN <<>>
    ELSE LET loaded == LoadProviderFile(fs, prov.path)
         IN  [i \in DOMAIN loaded |-> ExpandLine(loaded[i], tgt)]

ExpandNoPath ==
    /\ pc = "expand_rule_set"
    /\ provider.path = ""
    /\ pc' = "expand_done"
    /\ UNCHANGED <<groupVars, ruleVars, expandVars, configVars, profileVars>>

ExpandLoad ==
    /\ pc = "expand_rule_set"
    /\ provider.path # ""
    /\ lines' = LoadProviderFile(files, provider.path)
    /\ pc' = "expand_lines"
    /\ UNCHANGED <<groupVars, ruleVars, provider, target, li, expanded_rules,
                   configVars, profileVars>>

ExpandOneLine ==
    /\ pc = "expand_lines"
    /\ li <= Len(lines)
    /\ expanded_rules' = Append(expanded_rules, ExpandLine(lines[li], target))
    /\ li' = li + 1
    /\ UNCHANGED <<pc, groupVars, ruleVars, provider, target, lines, configVars,
                   profileVars>>

ExpandReturn ==
    /\ pc = "expand_lines"
    /\ li > Len(lines)
    /\ pc' = "expand_done"
    /\ UNCHANGED <<groupVars, ruleVars, expandVars, configVars, profileVars>>

\* Total number of fields of the lines of a provider file.
MaxFileFields == 3

\* the fields a line is made of
LineFields ==
    {<<"DOMAIN">>, <<"example.com">>, <<"no-resolve">>, <<"NO-RESOLVE">>,
     <<" ", "no-resolve">>, <<>>}

\* a comment and a blank line
OtherLines == {<<"#", "DOMAIN">>, <<" ">>}

\* the file whose i-th line is made of lens[i] fields of flat, or is the
\* other line other[i] when lens[i] = 0
FileOf(lens, flat, other) ==
    [i \in DOMAIN lens |->
        IF lens[i] = 0 THEN other[i]
        ELSE Join(SubSeq(flat, Sum(lens, i - 1) + 1, Sum(lens, i)))]

ScenarioFile ==
    << <<"DOMAIN", ",", "example.com">>,
       <<"DOMAIN", ",", "example.org", ",", "no-resolve">> >>

InitExpand ==
    /\ pc = "expand_rule_set"
    /\ ordered_proxy_names = <<>>
    /\ raw_groups = <<>>
    /\ IdleGroups
    /\ rule_providers_data = <<>>
    /\ raw_rules = <<>>
    /\ valid_targets = {}
    /\ validated_providers = <<>>
    /\ ri = 1
    /\ valid_rules = <<>>
    /\ emitted = <<>>
    /\ \/ \E k \in 0..MaxFileFields : \E lens \in SeqsOfLen(0..MaxFileFields, k) :
            /\ Sum(lens, k) + Cardinality({i \in 1..k : lens[i] = 0}) <= MaxFileFields
            /\ \E flat \in SeqsOfLen(LineFields, Sum(lens, k)) :
               \E other \in SeqsOfLen(OtherLines, k) :
                  /\ \A i \in 1..k : lens[i] # 0 => other[i] = <<" ">>
                  /\ files = [n \in {"f"} |-> FileOf(lens, flat, other)]
       \/ files = [n \in {"f"} |-> ScenarioFile]
    /\ provider \in [path : {"", "f", "./f", "gone"}]
    /\ target \in {<<"PROXY">>}
    /\ lines = <<>>
    /\ li = 1
    /\ expanded_rules = <<>>
    /\ IdleConfig
    /\ IdleProfile

NextExpand ==
    \/ ExpandNoPath
    \/ ExpandLoad
    \/ ExpandOneLine
    \/ ExpandReturn

SpecExpand == InitExpand /\ [][NextExpand]_vars

(***************************************************************************)
(* _process_groups as one call                                             *)
(***************************************************************************)
\* active_groups and used_proxies after the first n raw groups
RECURSIVE ExpandLoop(_, _, _)
ExpandLoop(raw, names, n) ==
    IF n = 0 THEN [d |-> <<>>, used |-> {}]
    ELSE LET s == ExpandLoop(raw, names, n - 1)
         IN  IF Validates(raw[n])
             THEN [d    |-> DictSet(s.d, ExpandedGroup(raw[n], names)),
                   used |-> UsedAfter(s.used, raw[n], names)]
             ELSE s

\* active_groups when the pruning loop breaks
RECURSIVE PruneGroups(_, _)
PruneGroups(d, base) ==
    IF RemovedCount(d, base) = 0 THEN PrunePass(d, base)
    ELSE PruneGroups(PrunePass(d, base), base)

ProcessGroups(raw, names) ==
    LET s == ExpandLoop(raw, names, Len(raw))
    IN  PruneGroups(WithUnclassified(s.d, Unclassified(names, s.used)),
                    BaseValidTargets(names))

(***************************************************************************)
(* generate_config up to the rules, and _process_rules                     *)
(***************************************************************************)
\* valid_targets of generate_config
ConfigValidTargets(groups, names) == Range(names) \cup Keys(groups) \cup built_ins

\* RuleProvider(**data) passes validation
ProviderValidates(data) == data.valid

\* target in valid_targets
InTargets(text, vt) == \E n \in vt : text = Str(n)

\* not isinstance(rule, str) or not rule.strip()
Skipped(rule) == ~rule.isstr \/ Strip(rule.text) = <<>>

IsRuleSet(rule) == Parts(rule.text)[1] = <<"RULE-SET">>

\* validated_providers.get(provider_name) finds a provider
HasProvider(vp, text) == \E n \in DOMAIN vp : text = Str(n)

GetProvider(vp, text) == vp[CHOOSE n \in DOMAIN vp : text = Str(n)]

\* a RULE-SET rule the loop leaves with continue
RuleSetDropped(rule, vt, vp) ==
    LET parts == Parts(rule.text)
    IN  IF Len(parts) < 3 THEN TRUE
        ELSE IF ~InTargets(parts[3], vt) THEN TRUE
        ELSE ~HasProvider(vp, parts[2])

\* target of a rule that is no RULE-SET; the empty text stands for None too,
\* both are falsy
RuleTarget(rule) ==
    LET parts == Parts(rule.text)
    IN  IF parts[1] = <<"MATCH">>
        THEN (IF Len(parts) >= 2 THEN parts[2] ELSE <<>>)
        ELSE (IF Len(parts) >= 3 THEN parts[3] ELSE <<>>)

\* a rule that is no RULE-SET is appended
RuleKept(rule, vt) == RuleTarget(rule) = <<>> \/ InTargets(RuleTarget(rule), vt)

\* AddRules gone wrong: new rules go to the front
AddRulesInFront(rules, new) == new \o rules

\* valid_rules.extend(new), valid_rules.append(rule)
AddRules(rules, new) == rules \o new

GenProcessGroups ==
    /\ pc = "gen_groups"
    /\ active_groups' = ProcessGroups(raw_groups, ordered_proxy_names)
    /\ valid_targets' = ConfigValidTargets(active_groups', ordered_proxy_names)
    /\ pc' = "validate"
    /\ UNCHANGED <<ordered_proxy_names, raw_groups, gi, used_proxies, pre_prune,
                   passes, rule_providers_data, files, raw_rules,
                   validated_providers, ri, valid_rules, emitted, expandVars, configVars,
                   profileVars>>

ValidateProviders ==
    /\ pc = "validate"
    /\ validated_providers' =
           [n \in {m \in DOMAIN rule_providers_data :
                      ProviderValidates(rule_providers_data[m])}
               |-> [path |-> rule_providers_data[n].path]]
    /\ pc' = "rules"
    /\ UNCHANGED <<groupVars, rule_providers_data, files, raw_rules, valid_targets,
                   ri, valid_rules, emitted, expandVars, configVars,
                   profileVars>>

\* the rule leaves valid_rules as it is
RuleAddsNothing ==
    /\ ri' = ri + 1
    /\ emitted' = Append(emitted, <<>>)
    /\ UNCHANGED <<pc, groupVars, rule_providers_data, files, raw_rules,
                   valid_targets, validated_providers, valid_rules, expandVars, configVars,
                   profileVars>>

\* the rule adds new to valid_rules
RuleAdds(new) ==
    /\ valid_rules' = AddRules(valid_rules, new)
    /\ ri' = ri + 1
    /\ emitted' = Append(emitted, new)
    /\ UNCHANGED <<pc, groupVars, rule_providers_data, files, raw_rules,
                   valid_targets, validated_providers, expandVars, configVars,
                   profileVars>>

SkipRule ==
    /\ pc = "rules"
    /\ ri <= Len(raw_rules)
    /\ Skipped(raw_rules[ri])
    /\ RuleAddsNothing

DropRuleSet ==
    /\ pc = "rules"
    /\ ri <= Len(raw_rules)
    /\ ~Skipped(raw_rules[ri])
    /\ IsRuleSet(raw_rules[ri])
    /\ RuleSetDropped(raw_rules[ri], valid_targets, validated_providers)
    /\ RuleAddsNothing

ExpandRuleSetRule ==
    /\ pc = "rules"
    /\ ri <= Len(raw_rules)
    /\ ~Skipped(raw_rules[ri])
    /\ IsRuleSet(raw_rules[ri])
    /\ ~RuleSetDropped(raw_rules[ri], valid_targets, validated_providers)
    /\ RuleAdds(ExpandRuleSet(GetProvider(validated_providers,
                                          Parts(raw_rules[ri].text)[2]),
                              Parts(raw_rules[ri].text)[3], files))

KeepRule ==
    /\ pc = "rules"
    /\ ri <= Len(raw_rules)
    /\ ~Skipped(raw_rules[ri])
    /\ ~IsRuleSet(raw_rules[ri])
    /\ RuleKept(raw_rules[ri], valid_targets)
    /\ RuleAdds(<<raw_rules[ri].text>>)

DropRule ==
    /\ pc = "rules"
    /\ ri <= Len(raw_rules)
    /\ ~Skipped(raw_rules[ri])
    /\ ~IsRuleSet(raw_rules[ri])
    /\ ~RuleKept(raw_rules[ri], valid_targets)
    /\ RuleAddsNothing

ReturnRules ==
    /\ pc = "rules"
    /\ ri > Len(raw_rules)
    /\ pc' = "rules_done"
    /\ UNCHANGED <<groupVars, ruleVars, expandVars, configVars, profileVars>>

\* Total number of fields of the raw rules.
MaxRuleFields == 4

\* the first field of a raw rule, and the fields after it
RuleKinds == {<<"RULE-SET">>, <<"MATCH">>, <<"DOMAIN">>, <<>>}

RuleArgs == {<<"prov">>, <<"bad">>, <<" ", "PROXY">>, <<>>}

\* the rule list whose i-th rule is kinds[i] followed by lens[i] fields of
\* flat, or is no string when isstr[i] is false
RulesOf(isstr, kinds, lens, flat) ==
    [i \in DOMAIN lens |->
        [isstr |-> isstr[i],
         text  |-> IF isstr[i]
                   THEN Join(<<kinds[i]>>
                             \o SubSeq(flat, Sum(lens, i - 1) + 1, Sum(lens, i)))
                   ELSE <<>>]]

\* the templates PROXY -> [P1] and bad -> [X]; pruning deletes bad
RuleGroups ==
    << [name |-> "PROXY", proxies |-> <<"P1">>, filter |-> "", removable |-> FALSE,
        valid |-> TRUE],
       [name |-> "bad", proxies |-> <<"X">>, filter |-> "", removable |-> FALSE,
        valid |-> TRUE] >>

\* the provider prov with the file f, and the provider bad the schema rejects
RuleProviders ==
    [n \in {"prov", "bad"} |->
        IF n = "prov" THEN [valid |-> TRUE, path |-> "./f"]
        ELSE [valid |-> FALSE, path |-> ""]]

InitRules ==
    /\ pc = "gen_groups"
    /\ ordered_proxy_names = <<"P1">>
    /\ raw_groups = RuleGroups
    /\ IdleGroups
    /\ rule_providers_data = RuleProviders
    /\ files = [n \in {"f"} |-> <<<<"#", "DOMAIN">>>> \o ScenarioFile]
    /\ \E k \in 0..MaxRuleFields : \E isstr \in SeqsOfLen(BOOLEAN, k) :
       \E kinds \in SeqsOfLen(RuleKinds, k) :
       \E lens \in SeqsOfLen(0..(MaxRuleFields - k), k) :
          /\ k + Sum(lens, k) <= MaxRuleFields
          /\ \A i \in 1..k : ~isstr[i] => lens[i] = 0 /\ kinds[i] = <<>>
          /\ \E flat \in SeqsOfLen(RuleArgs, Sum(lens, k)) :
                raw_rules = RulesOf(isstr, kinds, lens, flat)
    /\ valid_targets = {}
    /\ validated_providers = <<>>
    /\ ri = 1
    /\ valid_rules = <<>>
    /\ emitted = <<>>
    /\ IdleExpand
    /\ IdleConfig
    /\ IdleProfile

NextRules ==
    \/ GenProcessGroups
    \/ ValidateProviders
    \/ SkipRule
    \/ DropRuleSet
    \/ ExpandRuleSetRule
    \/ KeepRule
    \/ DropRule
    \/ ReturnRules

SpecRules == InitRules /\ [][NextRules]_vars

(***************************************************************************)
(* generate_config from ClashConfig(...) on.  A dict is a sequence of      *)
(* items [key, value] with pairwise distinct keys, in insertion order.     *)
(***************************************************************************)
ItemKeys(d) == {d[i].key : i \in DOMAIN d}

\* d[key]
ItemValue(d, key) == d[CHOOSE i \in DOMAIN d : d[i].key = key].value

\* DictPut gone wrong: a list is extended by the new value
DictPutExtending(d, key, value) ==
    IF key \in ItemKeys(d)
    THEN [i \in DOMAIN d |->
             IF d[i].key = key
             THEN [key   |-> key,
                   value |-> IF key \in {"proxies", "proxy-groups", "rules"}
                             THEN d[i].value \o value
                             ELSE value]
             ELSE d[i]]
    ELSE Append(d, [key |-> key, value |-> value])

\* d[key] = value: a new key goes last, an old key keeps its place
DictPut(d, key, value) ==
    IF key \in ItemKeys(d)
    THEN [i \in DOMAIN d |->
             IF d[i].key = key THEN [key |-> key, value |-> value] ELSE d[i]]
    ELSE Append(d, [key |-> key, value |-> value])

\* d.update(other)
RECURSIVE Update(_, _)
Update(d, other) ==
    IF other = <<>> THEN d
    ELSE Update(DictPut(d, other[1].key, other[1].value), Tail(other))

\* bool(override_data)
Truthy(data) == data.given /\ data.items # <<>>

\* the proxies the names stand for
ProxiesOf(names) == [i \in DOMAIN names |-> [name |-> names[i]]]

\* ProxyGroup.model_dump(by_alias=True, exclude_none=True): removable is
\* excluded from the dump
DumpGroup(group) == [name |-> group.name, proxies |-> group.proxies]

\* ClashConfig.model_dump(by_alias=True, exclude_none=True)
ModelDump(c) ==
    << [key |-> "mixed-port",          value |-> c.mixed_port],
       [key |-> "allow-lan",           value |-> c.allow_lan],
       [key |-> "mode",                value |-> c.mode],
       [key |-> "log-level",           value |-> c.log_level],
       [key |-> "external-controller", value |-> c.external_controller],
       [key |-> "proxies",             value |-> c.proxies],
       [key |-> "proxy-groups",
        value |-> [i \in DOMAIN c.proxy_groups |-> DumpGroup(c.proxy_groups[i])]],
       [key |-> "rules",               value |-> c.rules] >>

BuildConfig ==
    /\ pc = "rules_done"
    /\ config' = [mixed_port          |-> 7890,
                  allow_lan           |-> FALSE,
                  mode                |-> "Rule",
                  log_level           |-> "info",
                  external_controller |-> ":9090",
                  proxies             |-> ProxiesOf(ordered_proxy_names),
                  proxy_groups        |-> active_groups,
                  rules               |-> valid_rules]
    /\ pc' = "model_dump"
    /\ UNCHANGED <<groupVars, ruleVars, expandVars, override_data, final_config,
                   profileVars>>

DumpConfig ==
    /\ pc = "model_dump"
    /\ final_config' = ModelDump(config)
    /\ pc' = "override"
    /\ UNCHANGED <<groupVars, ruleVars, expandVars, override_data, config,
                   profileVars>>

ApplyOverride ==
    /\ pc = "override"
    /\ Truthy(override_data)
    /\ final_config' = Update(final_config, override_data.items)
    /\ pc' = "returned"
    /\ UNCHANGED <<groupVars, ruleVars, expandVars, override_data, config,
                   profileVars>>

ReturnConfig ==
    /\ pc = "override"
    /\ ~Truthy(override_data)
    /\ pc' = "returned"
    /\ UNCHANGED <<groupVars, ruleVars, expandVars, configVars, profileVars>>

\* Number of raw rules of a call with an override.
MaxConfigRules == 2

\* Number of items of override_data.
MaxOverride == 2

R1 == <<"MATCH">>

R2 == <<"DOMAIN", ",", "prov">>

R3 == <<"MATCH", ",", "DIRECT">>

ConfigRules ==
    {[isstr |-> FALSE, text |-> <<>>],
     [isstr |-> TRUE, text |-> R1],
     [isstr |-> TRUE, text |-> R2],
     [isstr |-> TRUE, text |-> <<"DOMAIN", ",", "prov", ",", "bad">>],
     [isstr |-> TRUE, text |-> <<"RULE-SET", ",", "prov", ",", "PROXY">>],
     [isstr |-> TRUE, text |-> <<"RULE-SET", ",", "bad", ",", "PROXY">>]}

OverrideItems ==
    {[key |-> "rules", value |-> <<R3>>],
     [key |-> "rules", value |-> <<>>],
     [key |-> "proxy-groups", value |-> <<>>],
     [key |-> "mode", value |-> "Global"],
     [key |-> "dns", value |-> "on"]}

\* no override, the empty override and the overrides of up to MaxOverride items
Overrides ==
    {NoOverride} \cup
    {[given |-> TRUE, items |-> o] :
        o \in {q \in SeqsUpTo(OverrideItems, MaxOverride) :
                  \A i, j \in DOMAIN q : q[i].key = q[j].key => i = j}}

InitConfig ==
    /\ pc = "gen_groups"
    /\ ordered_proxy_names = <<"P1">>
    /\ raw_groups = RuleGroups
    /\ IdleGroups
    /\ rule_providers_data = RuleProviders
    /\ files = [n \in {"f"} |-> ScenarioFile]
    /\ raw_rules \in SeqsUpTo(ConfigRules, MaxConfigRules)
    /\ valid_targets = {}
    /\ validated_providers = <<>>
    /\ ri = 1
    /\ valid_rules = <<>>
    /\ emitted = <<>>
    /\ IdleExpand
    /\ override_data \in Overrides
    /\ config = None
    /\ final_config = <<>>
    /\ IdleProfile

NextConfig ==
    \/ GenProcessGroups
    \/ ValidateProviders
    \/ SkipRule
    \/ DropRuleSet
    \/ ExpandRuleSetRule
    \/ KeepRule
    \/ DropRule
    \/ ReturnRules
    \/ BuildConfig
    \/ DumpConfig
    \/ ApplyOverride
    \/ ReturnConfig

SpecConfig == InitConfig /\ [][NextConfig]_vars

(***************************************************************************)
(* Proxy names and byte counts.  A proxy name is a sequence of lexemes      *)
(* [k, s, n]: a keyword "kw", a number "num" with n its value in           *)
(* hundredths, a unit "unit", a text of the shape dddd-dd-dd "date" with   *)
(* n its digits yyyymmdd, white space "sp" and any other text "w".  The    *)
(* words liuliang, daoqi and guoqi stand for the Chinese keywords.  A byte *)
(* count, and its decimal string, is [gib, rest]: gib * 2^30 + rest.       *)
(***************************************************************************)
Lex(k, s, n) == [k |-> k, s |-> s, n |-> n]

Kw(s) == Lex("kw", s, 0)

Num(n) == Lex("num", "", n)

Unit(s) == Lex("unit", s, 0)

Date(n) == Lex("date", "", n)

Sp == Lex("sp", " ", 0)

W(s) == Lex("w", s, 0)

Big(g, r) == [gib |-> g, rest |-> r]

\* the int i >= 0 as a byte count
ToBig(i) == Big(i \div 1073741824, i % 1073741824)

\* a + b
Add(a, b) ==
    Big(a.gib + b.gib + (a.rest + b.rest) \div 1073741824,
        (a.rest + b.rest) % 1073741824)

\* f"{rest / 1024**3:.2f}" in hundredths: rest * 100 / 2^30 rounded to the
\* nearest integer, a tie to the even one
RoundHundredths(rest) ==
    LET a    == rest \div 1048576
        b    == rest % 1048576
        c    == a * 100 + (b * 100) \div 1048576
        f    == (b * 100) % 1048576
        q    == c \div 1024
        m    == c % 1024
    IN  IF m > 512 \/ (m = 512 /\ f > 0) THEN q + 1
        ELSE IF m = 512 /\ q % 2 = 1 THEN q + 1
        ELSE q

\* f"{x / 1024**3:.2f}" in hundredths
Hundredths(x) == x.gib * 100 + RoundHundredths(x.rest)

(***************************************************************************)
(* datetime: the days since 1970-01-01 of a date and back                  *)
(***************************************************************************)
IsLeap(y) == y % 4 = 0 /\ (y % 100 # 0 \/ y % 400 = 0)

DaysInMonth(y, m) ==
    IF m = 2 THEN (IF IsLeap(y) THEN 29 ELSE 28)
    ELSE IF m \in {4, 6, 9, 11} THEN 30 ELSE 31

\* strptime(text, "%Y-%m-%d") does not raise ValueError
ValidDate(n) ==
    LET y == n \div 10000
        m == (n \div 100) % 100
        d == n % 100
    IN  /\ y >= 1
        /\ m \in 1..12
        /\ d >= 1
        /\ d <= DaysInMonth(y, m)

DaysFromCivil(n) ==
    LET m   == (n \div 100) % 100
        d   == n % 100
        y   == IF m <= 2 THEN n \div 10000 - 1 ELSE n \div 10000
        era == y \div 400
        yoe == y - era * 400
        doy == (153 * (IF m > 2 THEN m - 3 ELSE m + 9) + 2) \div 5 + d - 1
        doe == yoe * 365 + yoe \div 4 - yoe \div 100 + doy
    IN  era * 146097 + doe - 719468

CivilFromDays(z) ==
    LET zz  == z + 719468
        era == zz \div 146097
        doe == zz - era * 146097
        yoe == (doe - doe \div 1460 + doe \div 36524 - doe \div 146096) \div 365
        doy == doe - (365 * yoe + yoe \div 4 - yoe \div 100)
        mp  == (5 * doy + 2) \div 153
        d   == doy - (153 * mp + 2) \div 5 + 1
        m   == IF mp < 10 THEN mp + 3 ELSE mp - 9
        y   == yoe + era * 400 + (IF m <= 2 THEN 1 ELSE 0)
    IN  y * 10000 + m * 100 + d

\* datetime.fromtimestamp(ts).strftime("%Y-%m-%d"), in local time
LocalDate(ts, offset) == CivilFromDays((ts + offset) \div 86400)

\* int(datetime.strptime(text, "%Y-%m-%d").timestamp()), in local time
LocalMidnight(n, offset) == DaysFromCivil(n) * 86400 - offset

(***************************************************************************)
(* ProfileService._extract_subscription_info                               *)
(***************************************************************************)
\* re.IGNORECASE on a keyword
CaseFold(w) ==
    CASE w = "Traffic" -> "traffic"
      [] w = "Expire"  -> "expire"
      [] OTHER         -> w

\* the alternatives of (?:Traffic|liuliang), case folded
TrafficWords == {"traffic", "liuliang"}

\* the alternatives of (?:Expire|daoqi|guoqi), case folded
ExpireWords == {"expire", "daoqi", "guoqi"}

\* the keyword group of a pattern with the alternatives words matches the
\* lexeme
IsKeyword(t, words) == t.k = "kw" /\ CaseFold(t.s) \in words

\* (?:Traffic|liuliang) matches the lexeme
IsTrafficKeyword(t) == IsKeyword(t, TrafficWords)

\* (?:Expire|daoqi|guoqi) matches the lexeme
IsExpireKeyword(t) == IsKeyword(t, ExpireWords)

\* re.search scans from the left: the least index of text where a keyword of
\* words stands, 0 when there is none
First(text, words) ==
    IF \E i \in DOMAIN text : IsKeyword(text[i], words)
    THEN CHOOSE i \in DOMAIN text :
             /\ IsKeyword(text[i], words)
             /\ \A j \in 1..(i - 1) : ~IsKeyword(text[j], words)
    ELSE 0

\* the index of the unit that \s*(GB|G|MB|M) finds after the number at p,
\* 0 when there is none
UnitAt(text, p) ==
    IF p + 1 > Len(text) THEN 0
    ELSE IF text[p + 1].k = "unit" THEN p + 1
    ELSE IF p + 2 > Len(text) THEN 0
    ELSE IF text[p + 1].k = "sp" /\ text[p + 2].k = "unit" THEN p + 2
    ELSE 0

\* the indices after from of the numbers that a unit follows, ascending
Amounts(text, from) ==
    SelectSeq([i \in 1..Len(text) |-> i],
              LAMBDA p : p > from /\ text[p].k = "num" /\ UnitAt(text, p) # 0)

\* traffic_match is not None
TrafficMatches(text) ==
    LET kw == First(text, TrafficWords)
    IN  IF kw = 0 THEN FALSE ELSE Len(Amounts(text, kw)) >= 2

\* traffic_match.groups(): the lazy .*? stops at the first two amounts
TrafficGroups(text) ==
    LET a == Amounts(text, First(text, TrafficWords))
    IN  [used_val   |-> text[a[1]].n,
         used_unit  |-> text[UnitAt(text, a[1])].s,
         total_val  |-> text[a[2]].n,
         total_unit |-> text[UnitAt(text, a[2])].s]

\* to_bytes: int(float(val) * multiplier), val in hundredths
ToBytes(val, unit) ==
    LET w == val \div 100
        h == val % 100
    IN  IF unit \in {"GB", "G", "gb"}
        THEN Big(w, h * 10737418 + (h * 6) \div 25)
        ELSE Big(w \div 1024, (w % 1024) * 1048576 + (h * 1048576) \div 100)

\* the index of the date that expire_match.group(1) is, 0 when expire_match
\* is None
ExpireDateAt(text) ==
    LET kw == First(text, ExpireWords)
    IN  IF kw = 0 THEN 0
        ELSE IF \E i \in DOMAIN text : i > kw /\ text[i].k = "date"
        THEN CHOOSE i \in DOMAIN text :
                 /\ i > kw
                 /\ text[i].k = "date"
                 /\ \A j \in (kw + 1)..(i - 1) : text[j].k # "date"
        ELSE 0

\* SetInfo gone wrong: a key that is set keeps its value
SetInfoOnce(info, key, value) ==
    IF key \in ItemKeys(info) THEN info ELSE DictPut(info, key, value)

\* subscription_info[key] = value
SetInfo(info, key, value) == DictPut(info, key, value)

\* subscription_info after the call
ExtractSubscriptionInfo(proxy_name, info, offset) ==
    LET g       == TrafficGroups(proxy_name)
        traffic == IF TrafficMatches(proxy_name)
                   THEN SetInfo(SetInfo(SetInfo(info, "upload", Big(0, 0)),
                                        "download", ToBytes(g.used_val, g.used_unit)),
                                "total", ToBytes(g.total_val, g.total_unit))
                   ELSE info
        at      == ExpireDateAt(proxy_name)
    IN  IF at = 0 THEN traffic
        ELSE IF ~ValidDate(proxy_name[at].n) THEN traffic
        ELSE SetInfo(traffic, "expire",
                     ToBig(LocalMidnight(proxy_name[at].n, offset)))

(***************************************************************************)
(* generate_multiple_profiles_with_config, up to add_config_to_proxies     *)
(***************************************************************************)
\* profile_repo.load_profile raises FileNotFoundError
ProfileNotFound ==
    /\ pc = "load_profile"
    /\ pidx <= Len(requested)
    /\ requested[pidx] \notin DOMAIN profiles
    /\ pc' = "not_found"
    /\ UNCHANGED <<groupVars, ruleVars, expandVars, configVars, profileVars>>

\* the profile has no proxies
SkipProfile ==
    /\ pc = "load_profile"
    /\ pidx <= Len(requested)
    /\ requested[pidx] \in DOMAIN profiles
    /\ profiles[requested[pidx]] = <<>>
    /\ pidx' = pidx + 1
    /\ UNCHANGED <<pc, groupVars, ruleVars, expandVars, configVars, tz, profiles,
                   fetchVars, requested, qidx, all_proxies, subscription_info>>

LoadProfile ==
    /\ pc = "load_profile"
    /\ pidx <= Len(requested)
    /\ requested[pidx] \in DOMAIN profiles
    /\ profiles[requested[pidx]] # <<>>
    /\ all_proxies' = all_proxies \o profiles[requested[pidx]]
    /\ qidx' = 1
    /\ pc' = "extract"
    /\ UNCHANGED <<groupVars, ruleVars, expandVars, configVars, tz, profiles,
                   fetchVars, requested, pidx, subscription_info>>

ExtractProxy ==
    /\ pc = "extract"
    /\ qidx <= Len(profiles[requested[pidx]])
    /\ subscription_info' =
           ExtractSubscriptionInfo(profiles[requested[pidx]][qidx].name,
                                   subscription_info, tz)
    /\ qidx' = qidx + 1
    /\ UNCHANGED <<pc, groupVars, ruleVars, expandVars, configVars, tz, profiles,
                   fetchVars, requested, pidx, all_proxies>>

NextProfile ==
    /\ pc = "extract"
    /\ qidx > Len(profiles[requested[pidx]])
    /\ pidx' = pidx + 1
    /\ pc' = "load_profile"
    /\ UNCHANGED <<groupVars, ruleVars, expandVars, configVars, tz, profiles,
                   fetchVars, requested, qidx, all_proxies, subscription_info>>

ReturnInfo ==
    /\ pc = "load_profile"
    /\ pidx > Len(requested)
    /\ pc' = "generated"
    /\ UNCHANGED <<groupVars, ruleVars, expandVars, configVars, profileVars>>

\* Total number of proxies of the saved profiles.
MaxProxies == 3

\* Traffic: 0.00 GB / 1.00 GB | Expire: 2026-01-04
SyntheticName ==
    <<Kw("Traffic"), W(": "), Num(0), Sp, Unit("GB"), W(" / "), Num(100), Sp,
      Unit("GB"), W(" | "), Kw("Expire"), W(": "), Date(20260104)>>

ProxyNames ==
    {SyntheticName,
     <<Kw("liuliang"), Sp, Num(51250), Unit("MB"), W(" / "), Num(200), Sp, Unit("G")>>,
     <<Kw("expire"), W(": "), Date(20270228)>>,
     <<W("HK"), Sp, Kw("Expire"), Sp, Date(20261301), Sp, Date(20270228)>>,
     <<Kw("Traffic"), Sp, W("Relay"), Sp, Num(100), Sp, Unit("GB")>>,
     <<W("HK 01")>>}

Offsets == {0, 28800}

ProxiesNamed(names) == [i \in DOMAIN names |-> [name |-> names[i]]]

InitGenerate ==
    /\ pc = "load_profile"
    /\ ordered_proxy_names = <<>>
    /\ raw_groups = <<>>
    /\ IdleGroups
    /\ IdleRules
    /\ IdleExpand
    /\ IdleConfig
    /\ tz \in Offsets
    /\ \E la \in 0..MaxProxies : \E lb \in 0..(MaxProxies - la) :
       \E na \in SeqsOfLen(ProxyNames, la) : \E nb \in SeqsOfLen(ProxyNames, lb) :
          \/ profiles = [n \in {"a", "b"} |->
                            ProxiesNamed(IF n = "a" THEN na ELSE nb)]
          \/ lb = 0 /\ profiles = [n \in {"a"} |-> ProxiesNamed(na)]
    /\ IdleFetch
    /\ requested \in {<<"a">>, <<"a", "b">>, <<"b", "a">>, <<"a", "a">>}
    /\ pidx = 1
    /\ qidx = 1
    /\ all_proxies = <<>>
    /\ subscription_info = <<>>

NextGenerate ==
    \/ ProfileNotFound
    \/ SkipProfile
    \/ LoadProfile
    \/ ExtractProxy
    \/ NextProfile
    \/ ReturnInfo

SpecGenerate == InitGenerate /\ [][NextGenerate]_vars

(***************************************************************************)
(* ProfileService._create_traffic_proxy_node and _is_traffic_node          *)
(***************************************************************************)
\* info after the for loop over the first n parts
RECURSIVE HeaderInfo(_, _)
HeaderInfo(parts, n) ==
    IF n = 0 THEN <<>>
    ELSE IF parts[n].eq
    THEN DictPut(HeaderInfo(parts, n - 1), parts[n].key, parts[n].value)
    ELSE HeaderInfo(parts, n - 1)

\* info.get(key, 0)
InfoGet(info, key) == IF key \in ItemKeys(info) THEN ItemValue(info, key) ELSE Big(0, 0)

\* the int of a byte count below 2^31
ToInt(x) == x.gib * 1073741824 + x.rest

\* f"Traffic: {used_gb:.2f} GB / {total_gb:.2f} GB"
TrafficLabel(used, total) ==
    <<Kw("Traffic"), W(": "), Num(Hundredths(used)), Sp, Unit("GB"), W(" / "),
      Num(Hundredths(total)), Sp, Unit("GB")>>

\* f"Expire: {expire_date}"
ExpireLabel(expire, offset) ==
    <<Kw("Expire"), W(": "), Date(LocalDate(ToInt(expire), offset))>>

\* the node, NoNode when int() raises
CreateTrafficProxyNode(header, offset) ==
    IF \E i \in DOMAIN header.parts : header.parts[i].eq /\ ~header.parts[i].ok
    THEN NoNode
    ELSE LET info   == HeaderInfo(header.parts, Len(header.parts))
             used   == Add(InfoGet(info, "upload"), InfoGet(info, "download"))
             expire == InfoGet(info, "expire")
         IN  [given |-> TRUE,
              name  |-> IF expire # Big(0, 0)
                        THEN TrafficLabel(used, InfoGet(info, "total"))
                                 \o <<W(" | ")>> \o ExpireLabel(expire, offset)
                        ELSE TrafficLabel(used, InfoGet(info, "total"))]

\* "Traffic" in name or "liuliang" in name or "Expire" in name or
\* "daoqi" in name
IsTrafficNode(proxy) ==
    \E i \in DOMAIN proxy.name :
        /\ proxy.name[i].k = "kw"
        /\ proxy.name[i].s \in {"Traffic", "liuliang", "Expire", "daoqi"}

(***************************************************************************)
(* fetch_and_update_profile of the profile a, from a response that is a    *)
(* Clash configuration with the key proxies                                *)
(***************************************************************************)
NoProxies ==
    /\ pc = "fetch"
    /\ external_proxies = <<>>
    /\ pc' = "no_proxies"
    /\ UNCHANGED <<groupVars, ruleVars, expandVars, configVars, profileVars>>

GetProxies ==
    /\ pc = "fetch"
    /\ external_proxies # <<>>
    /\ proxies' = external_proxies
    /\ pc' = "header"
    /\ UNCHANGED <<groupVars, ruleVars, expandVars, configVars, tz, profiles,
                   external_proxies, user_info_header, dummy_proxy, generateVars>>

\* if user_info_header: is not taken
SkipHeader ==
    /\ pc = "header"
    /\ ~(user_info_header.given /\ user_info_header.parts # <<>>)
    /\ pc' = "save"
    /\ UNCHANGED <<groupVars, ruleVars, expandVars, configVars, profileVars>>

CreateNode ==
    /\ pc = "header"
    /\ user_info_header.given
    /\ user_info_header.parts # <<>>
    /\ dummy_proxy' = CreateTrafficProxyNode(user_info_header, tz)
    /\ pc' = "insert"
    /\ UNCHANGED <<groupVars, ruleVars, expandVars, configVars, tz, profiles,
                   external_proxies, user_info_header, proxies, generateVars>>

\* if dummy_proxy: is not taken
SkipInsert ==
    /\ pc = "insert"
    /\ ~dummy_proxy.given
    /\ pc' = "save"
    /\ UNCHANGED <<groupVars, ruleVars, expandVars, configVars, profileVars>>

InsertNode ==
    /\ pc = "insert"
    /\ dummy_proxy.given
    /\ proxies' = <<[name |-> dummy_proxy.name]>>
                      \o SelectSeq(proxies, LAMBDA p : ~IsTrafficNode(p))
    /\ pc' = "save"
    /\ UNCHANGED <<groupVars, ruleVars, expandVars, configVars, tz, profiles,
                   external_proxies, user_info_header, dummy_proxy, generateVars>>

SaveProfile ==
    /\ pc = "save"
    /\ profiles' = [n \in DOMAIN profiles \cup {"a"} |->
                       IF n = "a" THEN proxies ELSE profiles[n]]
    /\ pc' = "saved"
    /\ UNCHANGED <<groupVars, ruleVars, expandVars, configVars, tz, fetchVars,
                   generateVars>>

\* a request for the profile a comes in
RequestProfile ==
    /\ pc = "saved"
    /\ requested' = <<"a">>
    /\ pc' = "load_profile"
    /\ UNCHANGED <<groupVars, ruleVars, expandVars, configVars, tz, profiles,
                   fetchVars, pidx, qidx, all_proxies, subscription_info>>

\* Number of proxies of the fetched configuration.
MaxFetched == 2

FetchedNames == ProxyNames \cup {<<Kw("guoqi"), W(": "), Date(20270228)>>}

Part(key, value) == [eq |-> TRUE, key |-> key, ok |-> TRUE, value |-> value]

\* upload=100;download=924;total=1073741824;expire=1767484800
ScenarioHeader ==
    [given |-> TRUE,
     parts |-> <<Part("upload", ToBig(100)), Part("download", ToBig(924)),
                 Part("total", ToBig(1073741824)),
                 Part("expire", ToBig(1767484800))>>]

FetchHeaders ==
    {NoHeader,
     [given |-> TRUE, parts |-> <<>>],
     ScenarioHeader,
     [given |-> TRUE, parts |-> <<Part("total", Big(2, 0))>>],
     [given |-> TRUE,
      parts |-> <<[eq |-> TRUE, key |-> "total", ok |-> FALSE, value |-> Big(0, 0)]>>]}

InitFetch ==
    /\ pc = "fetch"
    /\ ordered_proxy_names = <<>>
    /\ raw_groups = <<>>
    /\ IdleGroups
    /\ IdleRules
    /\ IdleExpand
    /\ IdleConfig
    /\ tz \in Offsets
    /\ profiles = <<>>
    /\ \E names \in SeqsUpTo(FetchedNames, MaxFetched) :
          external_proxies = ProxiesNamed(names)
    /\ user_info_header \in FetchHeaders
    /\ dummy_proxy = NoNode
    /\ proxies = <<>>
    /\ IdleGenerate

NextFetch ==
    \/ NoProxies
    \/ GetProxies
    \/ SkipHeader
    \/ CreateNode
    \/ SkipInsert
    \/ InsertNode
    \/ SaveProfile
    \/ RequestProfile
    \/ LoadProfile
    \/ ExtractProxy
    \/ NextProfile
    \/ ReturnInfo

SpecFetch == InitFetch /\ [][NextFetch]_vars

(***************************************************************************)
(* _create_traffic_proxy_node followed by _extract_subscription_info on    *)
(* the name of the node                                                    *)
(***************************************************************************)
CodecCreate ==
    /\ pc = "create"
    /\ dummy_proxy' = CreateTrafficProxyNode(user_info_header, tz)
    /\ pc' = "created"
    /\ UNCHANGED <<groupVars, ruleVars, expandVars, configVars, tz, profiles,
                   external_proxies, user_info_header, proxies, generateVars>>

\* the header did not parse, there is no name to decode
CodecNoNode ==
    /\ pc = "created"
    /\ ~dummy_proxy.given
    /\ pc' = "no_node"
    /\ UNCHANGED <<groupVars, ruleVars, expandVars, configVars, profileVars>>

CodecExtract ==
    /\ pc = "created"
    /\ dummy_proxy.given
    /\ subscription_info' = ExtractSubscriptionInfo(dummy_proxy.name, <<>>, tz)
    /\ pc' = "decoded"
    /\ UNCHANGED <<groupVars, ruleVars, expandVars, configVars, tz, profiles,
                   fetchVars, requested, pidx, qidx, all_proxies>>

\* Largest total of a header, in GiB.
MaxGiB == 2

CodecOffsets == {-18000, 0, 28800}

\* whole numbers of GiB, and one and a half GiB
Totals == {Big(g, 0) : g \in 0..MaxGiB} \cup {Big(1, 536870912)}

\* none, 2026-01-04 00:00:00 UTC, the same day at 00:00:00 in UTC+8 and
\* at 01:00:00 UTC
Expires == {0, 1767484800, 1767456000, 1767488400}

CodecHeaders ==
    {[given |-> TRUE,
      parts |-> <<Part("upload", ToBig(u)), Part("download", ToBig(d)),
                  Part("total", t), Part("expire", ToBig(e))>>] :
        u \in {0, 100}, d \in {0, 924}, t \in Totals, e \in Expires}
    \cup {[given |-> TRUE,
           parts |-> <<[eq |-> TRUE, key |-> "total", ok |-> FALSE,
                        value |-> Big(0, 0)]>>]}

InitCodec ==
    /\ pc = "create"
    /\ ordered_proxy_names = <<>>
    /\ raw_groups = <<>>
    /\ IdleGroups
    /\ IdleRules
    /\ IdleExpand
    /\ IdleConfig
    /\ tz \in CodecOffsets
    /\ profiles = <<>>
    /\ external_proxies = <<>>
    /\ user_info_header \in CodecHeaders
    /\ dummy_proxy = NoNode
    /\ proxies = <<>>
    /\ IdleGenerate

NextCodec ==
    \/ CodecCreate
    \/ CodecNoNode
    \/ CodecExtract

SpecCodec == InitCodec /\ [][NextCodec]_vars

(***************************************************************************)
(* Properties of the group synthesizer                                     *)
(***************************************************************************)
Sinks == {"DIRECT", "REJECT", "NO-HYDRA"}

\* what an entry of a returned group may name
FinalTargets == Range(ordered_proxy_names) \cup Sinks \cup Keys(active_groups)

NoDup(s) == \A i, j \in DOMAIN s : s[i] = s[j] => i = j

FirstIdx(s, x) == CHOOSE i \in DOMAIN s : s[i] = x /\ \A j \in 1..(i - 1) : s[j] # x

\* o holds names of t only, each at the relative place of its first occurrence in t
FirstOccOrdered(o, t) ==
    /\ \A i \in DOMAIN o : o[i] \in Range(t)
    /\ \A i, j \in DOMAIN o : i < j => FirstIdx(t, o[i]) < FirstIdx(t, o[j])

\* the template a name of the dict stands for: the last valid one of that name
TemplateOf(name) ==
    raw_groups[CHOOSE i \in DOMAIN raw_groups :
                  /\ raw_groups[i].valid /\ raw_groups[i].name = name
                  /\ \A j \in DOMAIN raw_groups :
                        raw_groups[j].valid /\ raw_groups[j].name = name => j <= i]

\* the names no valid template matched by its filter or listed
NotClassified ==
    {n \in Range(ordered_proxy_names) :
        \A i \in DOMAIN raw_groups :
            raw_groups[i].valid =>
                /\ n \notin Range(raw_groups[i].proxies)
                /\ ~(raw_groups[i].filter = "1" /\ n = "P1")}

\* s ends with the names of S, each once, in the order of ordered_proxy_names
EndsWithNames(s, S) ==
    LET n == Cardinality(S)
        tail == SubSeq(s, Len(s) - n + 1, Len(s))
    IN  /\ Len(s) >= n
        /\ Range(tail) = S
        /\ \A i, j \in DOMAIN tail :
              i < j => \E a, b \in DOMAIN ordered_proxy_names :
                          /\ a < b
                          /\ ordered_proxy_names[a] = tail[i]
                          /\ ordered_proxy_names[b] = tail[j]
                          /\ \A c \in 1..(a - 1) : ordered_proxy_names[c] # tail[i]
                          /\ \A c \in 1..(b - 1) : ordered_proxy_names[c] # tail[j]

\* C1: every entry of every returned group names a proxy, a built-in sink or
\* a returned group, also when groups name themselves or each other.
C1_ReferentialClosure ==
    pc = "done" =>
        \A i \in DOMAIN active_groups :
            \A j \in DOMAIN active_groups[i].proxies :
                active_groups[i].proxies[j] \in FinalTargets

\* C1 witness: a group was pruned away and a returned group names a group.
C1_Witness ==
    /\ pc = "done"
    /\ Keys(pre_prune) # Keys(active_groups)
    /\ \E i \in DOMAIN active_groups :
          Range(active_groups[i].proxies) \cap GroupNames # {}

\* C2: no returned group has an empty proxies list.
C2_NoEmptyGroups ==
    pc = "done" => \A i \in DOMAIN active_groups : active_groups[i].proxies # <<>>

\* C2 witness: a non-removable group that listed entries lost them all in a
\* pass and is not returned, while another group is.
C2_Witness ==
    /\ pc = "done"
    /\ active_groups # <<>>
    /\ \E i \in DOMAIN pre_prune :
          /\ ~pre_prune[i].removable
          /\ pre_prune[i].proxies # <<>>
          /\ pre_prune[i].name \notin Keys(active_groups)

\* C3: a removable group is returned with exactly the entries it had when
\* pruning started, or not at all; it is not returned when one of its entries
\* names no proxy, no sink and no returned group; and A->[X],
\* B(removable)->[A] with X absent returns neither A nor B.
C3_RemovableAllOrNothing ==
    pc = "done" =>
        /\ \A i \in DOMAIN pre_prune :
              pre_prune[i].removable =>
                  IF Range(pre_prune[i].proxies) \subseteq FinalTargets
                  THEN HasKey(active_groups, pre_prune[i].name) =>
                          Get(active_groups, pre_prune[i].name) = pre_prune[i]
                  ELSE ~HasKey(active_groups, pre_prune[i].name)
        /\ (raw_groups =
               << [name |-> "A", proxies |-> <<"X">>, filter |-> "",
                   removable |-> FALSE, valid |-> TRUE],
                  [name |-> "B", proxies |-> <<"A">>, filter |-> "",
                   removable |-> TRUE, valid |-> TRUE] >>
            => active_groups = <<>>)

\* C3 witness: the cascade; a removable group named a group that an earlier
\* pass deleted, and a later pass deleted it.
C3_Witness ==
    /\ pc = "done"
    /\ passes >= 3
    /\ \E i, j \in DOMAIN pre_prune :
          /\ pre_prune[i].removable
          /\ pre_prune[i].proxies = <<pre_prune[j].name>>
          /\ ~pre_prune[j].removable
          /\ pre_prune[j].proxies = <<"X">>
          /\ ~HasKey(active_groups, pre_prune[i].name)
          /\ ~HasKey(active_groups, pre_prune[j].name)

\* a group handed to the pruning has an entry that resolves to nothing returned
HasUnresolved(group) == ~(Range(group.proxies) \subseteq FinalTargets)

\* C4 as claimed: every non-removable group with unresolved references is
\* returned, with them removed and the rest in the original order.
C4_Original ==
    pc = "done" =>
        \A i \in DOMAIN pre_prune :
            ~pre_prune[i].removable /\ HasUnresolved(pre_prune[i]) =>
                /\ HasKey(active_groups, pre_prune[i].name)
                /\ Get(active_groups, pre_prune[i].name).proxies =
                       Keep(pre_prune[i].proxies, FinalTargets)

\* C4 amended: a non-removable group with unresolved references is returned
\* exactly when one of its entries resolves, and then with the unresolved
\* ones removed and the rest in the original order.
C4_StrippedOrDeleted ==
    pc = "done" =>
        \A i \in DOMAIN pre_prune :
            ~pre_prune[i].removable /\ HasUnresolved(pre_prune[i]) =>
                IF \E j \in DOMAIN pre_prune[i].proxies :
                       pre_prune[i].proxies[j] \in FinalTargets
                THEN /\ HasKey(active_groups, pre_prune[i].name)
                     /\ Get(active_groups, pre_prune[i].name).proxies =
                            Keep(pre_prune[i].proxies, FinalTargets)
                ELSE ~HasKey(active_groups, pre_prune[i].name)

\* C4 witness: a non-removable group is returned with an entry removed and
\* two entries left.
C4_Witness ==
    /\ pc = "done"
    /\ \E i \in DOMAIN pre_prune :
          /\ ~pre_prune[i].removable
          /\ HasUnresolved(pre_prune[i])
          /\ HasKey(active_groups, pre_prune[i].name)
          /\ Len(Get(active_groups, pre_prune[i].name).proxies) >= 2

\* the templates hold a valid group named PROXY
HasProxyTemplate ==
    \E i \in DOMAIN raw_groups : raw_groups[i].valid /\ raw_groups[i].name = "PROXY"

UnclassifiedScenario ==
    /\ ordered_proxy_names = <<"P1", "P2">>
    /\ raw_groups = << [name |-> "PROXY", proxies |-> <<>>, filter |-> "",
                        removable |-> FALSE, valid |-> TRUE] >>

OwnEntries(group) ==
    IF group.name = "PROXY"
    THEN SelectSeq(group.proxies, LAMBDA p : p \notin NotClassified)
    ELSE group.proxies

\* C6 as claimed: no returned list holds a name twice, and the list of a
\* group without filter holds names of its template's list only, in the
\* order of their first occurrences there.
C6_Original ==
    pc = "done" =>
        \A i \in DOMAIN active_groups :
            /\ NoDup(active_groups[i].proxies)
            /\ (TemplateOf(active_groups[i].name).filter = "" =>
                   FirstOccOrdered(active_groups[i].proxies,
                                   TemplateOf(active_groups[i].name).proxies))

\* C6 amended: the same, except that PROXY's list holds, after the names of
\* its template, the unclassified names routed to it.
C6_OrderPreserved ==
    pc = "done" =>
        \A i \in DOMAIN active_groups :
            /\ NoDup(active_groups[i].proxies)
            /\ (TemplateOf(active_groups[i].name).filter = "" =>
                   /\ FirstOccOrdered(OwnEntries(active_groups[i]),
                                      TemplateOf(active_groups[i].name).proxies)
                   /\ \E k \in 0..Len(active_groups[i].proxies) :
                         /\ OwnEntries(active_groups[i]) =
                                SubSeq(active_groups[i].proxies, 1, k)
                         /\ \A j \in (k + 1)..Len(active_groups[i].proxies) :
                               /\ active_groups[i].name = "PROXY"
                               /\ active_groups[i].proxies[j] \in NotClassified)

\* C6 witness: a group without filter whose template repeats a name is
\* returned with two names.
C6_Witness ==
    /\ pc = "done"
    /\ \E i \in DOMAIN active_groups :
          LET t == TemplateOf(active_groups[i].name)
          IN  /\ t.filter = ""
              /\ ~NoDup(t.proxies)
              /\ t.proxies[1] # t.proxies[2]
              /\ Len(active_groups[i].proxies) = 2

(***************************************************************************)
(* Properties of the rule synthesizer                                      *)
(***************************************************************************)
\* the rule loop has started
InRules == pc \in {"rules", "rules_done"}

\* a non-blank string rule whose kind is not RULE-SET
PlainRule(rule) ==
    /\ rule.isstr
    /\ Strip(rule.text) # <<>>
    /\ Parts(rule.text)[1] # <<"RULE-SET">>

\* the rule carries a target: a MATCH rule whose second field is there and
\* is not empty, any other rule of at least 3 fields
CarriesTarget(rule) ==
    LET parts == Parts(rule.text)
    IN  IF parts[1] = <<"MATCH">>
        THEN (IF Len(parts) >= 2 THEN parts[2] # <<>> ELSE FALSE)
        ELSE Len(parts) >= 3

\* the target of a rule that carries one
TargetField(rule) ==
    LET parts == Parts(rule.text)
    IN  IF parts[1] = <<"MATCH">> THEN parts[2] ELSE parts[3]

\* the text names a proxy, a sink or a group that survived pruning
NamesFinalTarget(text) == \E n \in FinalTargets : text = <<n>>

\* C7: a non-blank string rule whose kind is not RULE-SET is emitted,
\* unchanged, if and only if it carries no target or its target (the second
\* field of MATCH, the third field of any other kind with at least 3 fields)
\* is a proxy name, a sink or the name of a group that survived pruning
C7_TargetChecked ==
    InRules =>
        \A i \in 1..(ri - 1) :
            PlainRule(raw_rules[i]) =>
                emitted[i] =
                    IF \/ ~CarriesTarget(raw_rules[i])
                       \/ NamesFinalTarget(TargetField(raw_rules[i]))
                    THEN <<raw_rules[i].text>>
                    ELSE <<>>

\* the provider a RULE-SET rule names exists and is valid
ValidProviderNamed(text) ==
    \E n \in DOMAIN rule_providers_data :
        text = <<n>> /\ rule_providers_data[n].valid

PathOfProvider(text) ==
    rule_providers_data[CHOOSE n \in DOMAIN rule_providers_data : text = <<n>>].path

\* what a raw rule contributes to the output
Image(rule) ==
    IF ~rule.isstr THEN <<>>
    ELSE IF Strip(rule.text) = <<>> THEN <<>>
    ELSE LET parts == Parts(rule.text)
         IN  IF parts[1] = <<"RULE-SET">>
             THEN IF Len(parts) < 3 THEN <<>>
                  ELSE IF ~NamesFinalTarget(parts[3]) THEN <<>>
                  ELSE IF ~ValidProviderNamed(parts[2]) THEN <<>>
                  ELSE LET loaded == LoadProviderFile(files, PathOfProvider(parts[2]))
                       IN  [j \in DOMAIN loaded |-> ExpandLine(loaded[j], parts[3])]
             ELSE IF RuleKept(rule, FinalTargets)
                  THEN <<rule.text>>
                  ELSE <<>>

\* the images of the first n raw rules, one after the other
RECURSIVE ImagesUpTo(_)
ImagesUpTo(n) ==
    IF n = 0 THEN <<>> ELSE ImagesUpTo(n - 1) \o Image(raw_rules[n])

\* C8: the rules put out so far are the images of the raw rules handled so
\* far, in the order of the raw rules, the expansion of a RULE-SET rule
\* standing where the rule stood, in the order of the provider file's lines
C8_ImagesInOrder ==
    InRules => valid_rules = ImagesUpTo(ri - 1)

\* a RULE-SET rule was expanded between two kept rules or after a kept one
C8_Witness ==
    /\ pc = "rules_done"
    /\ \E i, j \in DOMAIN emitted :
          /\ i < j
          /\ Len(emitted[i]) = 1
          /\ Len(emitted[j]) = 2
          /\ Parts(raw_rules[j].text)[1] = <<"RULE-SET">>
          /\ valid_rules = emitted[i] \o emitted[j]

(***************************************************************************)
(* Properties of the rule-provider expander                                *)
(***************************************************************************)
\* the lines of the provider's file that are neither blank nor a comment
ProviderFileLines ==
    LET name == IF provider.path = "./f" THEN "f" ELSE provider.path
    IN  IF provider.path = "" \/ name \notin DOMAIN files THEN <<>>
        ELSE SelectSeq(files[name],
                       LAMBDA l : Strip(l) # <<>> /\ Strip(l)[1] # "#")

NoResolveWords == {<<"no-resolve">>, <<"NO-RESOLVE">>, <<"No-Resolve">>}

\* the rule a line of the provider file gives
ExpectedRule(line) ==
    LET fields == Parts(line)
        n      == Len(fields)
    IN  IF fields[n] \in NoResolveWords
        THEN Join(SubSeq(fields, 1, n - 1)) \o <<",">> \o target
                 \o <<",", "no-resolve">>
        ELSE Join(fields) \o <<",">> \o target

\* C9: the expansion has one rule per line of the provider file, the line's
\* fields followed by the target, a last field no-resolve (in any case)
\* moved behind the target; a missing file or an empty path gives nothing;
\* DOMAIN,example.com and DOMAIN,example.org,no-resolve with target PROXY
\* give DOMAIN,example.com,PROXY and DOMAIN,example.org,PROXY,no-resolve
C9_OneRulePerLine ==
    pc = "expand_done" =>
        /\ Len(expanded_rules) = Len(ProviderFileLines)
        /\ \A i \in DOMAIN expanded_rules :
              expanded_rules[i] = ExpectedRule(ProviderFileLines[i])
        /\ provider.path \in {"", "gone"} => expanded_rules = <<>>
        /\ (files["f"] = ScenarioFile /\ provider.path \in {"f", "./f"}) =>
              expanded_rules =
                  << <<"DOMAIN", ",", "example.com", ",", "PROXY">>,
                     <<"DOMAIN", ",", "example.org", ",", "PROXY", ",",
                       "no-resolve">> >>

\* a line ending in NO-RESOLVE was expanded
C9_Witness ==
    /\ pc = "expand_done"
    /\ \E i \in DOMAIN expanded_rules :
          /\ Parts(ProviderFileLines[i])[Len(Parts(ProviderFileLines[i]))]
                 = <<"NO-RESOLVE">>
          /\ Len(Parts(ProviderFileLines[i])) = 2
          /\ expanded_rules[i][Len(expanded_rules[i])] = "no-resolve"

(***************************************************************************)
(* Properties of the override merge                                        *)
(***************************************************************************)
\* the value the assembled document has under a key
AssembledValue(key) ==
    CASE key = "mixed-port"          -> 7890
      [] key = "allow-lan"           -> FALSE
      [] key = "mode"                -> "Rule"
      [] key = "log-level"           -> "info"
      [] key = "external-controller" -> ":9090"
      [] key = "proxies"             -> [i \in DOMAIN ordered_proxy_names |->
                                            [name |-> ordered_proxy_names[i]]]
      [] key = "proxy-groups"        -> [i \in DOMAIN active_groups |->
                                            [name    |-> active_groups[i].name,
                                             proxies |-> active_groups[i].proxies]]
      [] key = "rules"               -> valid_rules

AssembledOrder ==
    <<"mixed-port", "allow-lan", "mode", "log-level", "external-controller",
      "proxies", "proxy-groups", "rules">>

AssembledKeys == Range(AssembledOrder)

DistinctKeys(d) == \A i, j \in DOMAIN d : d[i].key = d[j].key => i = j

\* C10: with a non-empty override the returned document has the override's
\* value under every key of the override and the assembled value under
\* every other key; with an empty or missing override it is the assembled
\* document; rules [R1, R2] overridden by {rules: [R3]} are [R3]
C10_OverrideReplaces ==
    pc = "returned" =>
        /\ DistinctKeys(final_config)
        /\ ItemKeys(final_config) = AssembledKeys \cup ItemKeys(override_data.items)
        /\ \A i \in DOMAIN override_data.items :
              ItemValue(final_config, override_data.items[i].key)
                  = override_data.items[i].value
        /\ \A k \in AssembledKeys \ ItemKeys(override_data.items) :
              ItemValue(final_config, k) = AssembledValue(k)
        /\ override_data.items = <<>> =>
              [i \in DOMAIN final_config |-> final_config[i].key] = AssembledOrder
        /\ (/\ valid_rules = <<R1, R2>>
            /\ override_data.items = <<[key |-> "rules", value |-> <<R3>>]>>)
              => ItemValue(final_config, "rules") = <<R3>>

\* rules [R1, R2] were assembled and overridden by {rules: [R3]}
C10_Witness ==
    /\ pc = "returned"
    /\ valid_rules = <<R1, R2>>
    /\ override_data.items = <<[key |-> "rules", value |-> <<R3>>]>>
    /\ ItemValue(final_config, "rules") = <<R3>>

(***************************************************************************)
(* Properties of the metadata decoder                                      *)
(***************************************************************************)
\* the proxies of the requested profiles, in profile order and list order
RECURSIVE MergedUpTo(_)
MergedUpTo(n) ==
    IF n = 0 THEN <<>> ELSE MergedUpTo(n - 1) \o profiles[requested[n]]

Merged == MergedUpTo(Len(requested))

\* the proxy's name carries an expire keyword followed by a valid date
ExpireMatchesValid(text) ==
    IF ExpireDateAt(text) = 0 THEN FALSE ELSE ValidDate(text[ExpireDateAt(text)].n)

\* the indices of the merged proxies whose name matches
TrafficIndices == {i \in DOMAIN Merged : TrafficMatches(Merged[i].name)}

ExpireIndices == {i \in DOMAIN Merged : ExpireMatchesValid(Merged[i].name)}

Last(S) == CHOOSE i \in S : \A j \in S : j <= i

\* C11: upload, download and total are those of the last merged proxy whose
\* name matches the traffic pattern, expire that of the last one whose name
\* matches the expire pattern with a valid date; a key no proxy sets is not
\* there
C11_LastMatchWins ==
    pc = "generated" =>
        /\ all_proxies = Merged
        /\ IF TrafficIndices = {}
           THEN ItemKeys(subscription_info) \cap {"upload", "download", "total"} = {}
           ELSE LET g == TrafficGroups(Merged[Last(TrafficIndices)].name)
                IN  /\ ItemValue(subscription_info, "upload") = Big(0, 0)
                    /\ ItemValue(subscription_info, "download")
                           = ToBytes(g.used_val, g.used_unit)
                    /\ ItemValue(subscription_info, "total")
                           = ToBytes(g.total_val, g.total_unit)
        /\ IF ExpireIndices = {}
           THEN "expire" \notin ItemKeys(subscription_info)
           ELSE LET text == Merged[Last(ExpireIndices)].name
                IN  ItemValue(subscription_info, "expire")
                        = ToBig(LocalMidnight(text[ExpireDateAt(text)].n, tz))

\* two profiles were merged, two of their three proxies give different
\* traffic, two give an expire, and the last one carries an expire date
C11_Witness ==
    /\ pc = "generated"
    /\ Len(requested) = 2
    /\ Cardinality(TrafficIndices) = 2
    /\ Cardinality(ExpireIndices) = 2
    /\ Len(Merged) = 3
    /\ ExpireDateAt(Merged[3].name) # 0
    /\ \A i, j \in TrafficIndices :
          i # j => TrafficGroups(Merged[i].name) # TrafficGroups(Merged[j].name)
    /\ ItemValue(subscription_info, "total") = Big(1, 0)

(***************************************************************************)
(* Properties of the ingest                                                *)
(***************************************************************************)
\* the name carries a traffic or an expire keyword of the decoder, in any
\* case
ReadsAsMetadata(text) ==
    \E i \in DOMAIN text : IsTrafficKeyword(text[i]) \/ IsExpireKeyword(text[i])

\* the profile a was saved from a response with a header that parses
SavedWithNode ==
    /\ pc \in {"saved", "load_profile", "extract", "generated"}
    /\ dummy_proxy.given

\* C12: the saved list starts with the synthetic node, the rest of it is
\* the fetched proxies without those whose name carries a traffic or expire
\* keyword of the decoder, so no other saved node reads as metadata, and
\* what a later generation decodes is what the synthetic node says
C12_OnlySyntheticNode ==
    SavedWithNode =>
        /\ profiles["a"][1] = [name |-> dummy_proxy.name]
        /\ Tail(profiles["a"])
               = SelectSeq(external_proxies, LAMBDA p : ~ReadsAsMetadata(p.name))
        /\ \A i \in 2..Len(profiles["a"]) : ~ReadsAsMetadata(profiles["a"][i].name)
        /\ pc = "generated" =>
              subscription_info = ExtractSubscriptionInfo(dummy_proxy.name, <<>>, tz)

(***************************************************************************)
(* Properties of the metadata codec                                        *)
(***************************************************************************)
\* the value the header gives a key
HeaderValue(key) ==
    LET i == CHOOSE j \in DOMAIN user_info_header.parts :
                 user_info_header.parts[j].key = key
    IN  user_info_header.parts[i].value

\* the node's name contains the lexemes
Contains(text, piece) ==
    \E i \in 0..(Len(text) - Len(piece)) : SubSeq(text, i + 1, i + Len(piece)) = piece

\* the key is there with the value
Recovers(key, value) ==
    IF key \in ItemKeys(subscription_info)
    THEN ItemValue(subscription_info, key) = value
    ELSE FALSE

\* C13: for a header whose total is a whole number of GiB and whose expire
\* is the start of a calendar day of the host, decoding the encoded name
\* gives the header's total and expire and the upload 0; the header
\* upload=100;download=924;total=1073741824;expire=1767484800 gives a name
\* with Traffic: 0.00 GB / 1.00 GB and Expire: 2026-01-04 that decodes to
\* total 1073741824, expire 1767484800 and upload 0
C13_RoundTrip ==
    pc = "decoded" =>
        /\ (/\ HeaderValue("total").rest = 0
            /\ (ToInt(HeaderValue("expire")) + tz) % 86400 = 0)
              => /\ Recovers("total", HeaderValue("total"))
                 /\ Recovers("expire", HeaderValue("expire"))
                 /\ Recovers("upload", Big(0, 0))
        /\ user_info_header = ScenarioHeader
              => /\ Contains(dummy_proxy.name,
                             <<Kw("Traffic"), W(": "), Num(0), Sp, Unit("GB"),
                               W(" / "), Num(100), Sp, Unit("GB")>>)
                 /\ Contains(dummy_proxy.name,
                             <<Kw("Expire"), W(": "), Date(20260104)>>)
                 /\ Recovers("total", ToBig(1073741824))
                 /\ Recovers("expire", ToBig(1767484800))
                 /\ Recovers("upload", Big(0, 0))

(***************************************************************************)
(* Properties of the pruning loop                                          *)
(***************************************************************************)
Base == BaseValidTargets(ordered_proxy_names)

\* C14: a second call of _prune_groups on the map the first call left
\* deletes no group and changes no group's proxies
C14_PruneIdempotent ==
    pc = "done" =>
        /\ RemovedCount(active_groups, Base) = 0
        /\ PruneGroups(active_groups, Base) = active_groups

\* the first call deleted a group, stripped an entry of a group it kept and
\* took more than one pass
C14_Witness ==
    /\ pc = "done"
    /\ passes >= 2
    /\ Len(active_groups) < Len(pre_prune)
    /\ \E i \in DOMAIN active_groups :
          Get(pre_prune, active_groups[i].name).proxies # active_groups[i].proxies

\* a pass of the loop, from active_groups to active_groups'
PassTaken == pc = "prune" /\ passes' = passes + 1

\* C15: the pruning loop terminates; a pass that is not the last deletes a
\* group, the last deletes none, every pass filters against the names of
\* the groups present when it starts, and there are at most as many passes
\* as groups plus one
C15_PruneTerminates ==
    /\ <>(pc = "done")
    /\ [](pc \in {"prune", "done"} => passes <= Len(pre_prune) + 1)
    /\ [][PassTaken =>
            /\ pc' = "prune" => Len(active_groups') < Len(active_groups)
            /\ pc' = "done" => Len(active_groups') = Len(active_groups)
            /\ \A i \in DOMAIN active_groups' :
                  Range(active_groups'[i].proxies) \subseteq Base \cup Keys(active_groups)
         ]_vars

\* a map with a group naming itself, or two groups naming each other, was
\* pruned in more than one pass
C15_Witness ==
    /\ pc = "done"
    /\ passes >= 2
    /\ Len(active_groups) < Len(pre_prune)
    /\ \E i, j \in DOMAIN pre_prune :
          /\ pre_prune[i].name \in Range(pre_prune[j].proxies)
          /\ pre_prune[j].name \in Range(pre_prune[i].proxies)

====
